---- MODULE Spec2Model ----
(***************************************************************************)
(* A model of the HTML tokenizer of TeraWattHour/html (tokenizer.go,        *)
(* tokens.go).  A template is a sequence of code points, each written as a  *)
(* one-character string; the scanner is the record [i, line, column] of     *)
(* the Tokenizer struct, and every method of Tokenizer is an operator that  *)
(* takes the template and the scanner and returns the scanner it leaves     *)
(* (and, for the recognizers, the token it returns).                        *)
(***************************************************************************)
EXTENDS Integers, Sequences, FiniteSets, TLC

VARIABLES template, calls, tk, status, out, last

vars == <<template, calls, tk, status, out, last>>

(***************************************************************************)
(* Code points.                                                            *)
(***************************************************************************)
\* rune 0: what current() returns past the end, and also U+0000 in the input
NUL == "NUL"
TAB == "TAB"
LF == "LF"
FF == "FF"
CR == "CR"
SP == " "
DQ == "\""
SQ == "'"
BS == "\\"

LowerSeq == <<"a","b","c","d","e","f","g","h","i","j","k","l","m",
              "n","o","p","q","r","s","t","u","v","w","x","y","z">>

UpperSeq == <<"A","B","C","D","E","F","G","H","I","J","K","L","M",
              "N","O","P","Q","R","S","T","U","V","W","X","Y","Z">>

Range(s) == {s[k] : k \in DOMAIN s}

isDigit(r) == r \in {"0","1","2","3","4","5","6","7","8","9"}

isLetter(r) == r \in Range(LowerSeq) \cup Range(UpperSeq)

isWhitespace(r) == r \in {TAB, LF, FF, CR, SP}

\* case folding of the (?i) patterns; none of their letters has a non-ASCII fold
Fold(r) ==
    IF r \in Range(UpperSeq)
    THEN LowerSeq[CHOOSE k \in DOMAIN UpperSeq : UpperSeq[k] = r]
    ELSE r

\* template[from:to] of Go: the code points at 0-based offsets from..to-1
Slice(tpl, from, to) == [k \in 1..(to - from) |-> tpl[from + k]]

(***************************************************************************)
(* The cursor primitives.                                                  *)
(***************************************************************************)
NewTokenizer == [i |-> 0, line |-> 1, column |-> 1]

current(tpl, t) == IF t.i >= Len(tpl) THEN NUL ELSE tpl[t.i + 1]

peek(tpl, t) == IF t.i + 1 >= Len(tpl) THEN NUL ELSE tpl[t.i + 2]

\* advance() without the reset of the column after a line feed
advance_noReset(tpl, t) ==
    LET previous == current(tpl, t) IN
    IF previous = NUL THEN t
    ELSE [i      |-> t.i + 1,
          line   |-> IF previous = LF THEN t.line + 1 ELSE t.line,
          column |-> t.column + 1]

\* the scanner after advance(); the rune it returns is current(tpl, t)
advance(tpl, t) ==
    LET previous == current(tpl, t) IN
    IF previous = NUL THEN t
    ELSE [i      |-> t.i + 1,
          line   |-> IF previous = LF THEN t.line + 1 ELSE t.line,
          column |-> (IF previous = LF THEN 0 ELSE t.column) + 1]

location(t) == [line |-> t.line, column |-> t.column, cursor |-> t.i]

is(tpl, t, what) == current(tpl, t) \in what

consume(tpl, t, what) ==
    IF current(tpl, t) = what
    THEN [ok |-> TRUE, t |-> advance(tpl, t)]
    ELSE [ok |-> FALSE, t |-> t]

RECURSIVE skipWhitespace(_, _)
skipWhitespace(tpl, t) ==
    IF isWhitespace(current(tpl, t))
    THEN skipWhitespace(tpl, advance(tpl, t))
    ELSE t

\* the loop of until(): previous is the rune the last advance() returned
RECURSIVE untilLoop(_, _, _, _, _)
untilLoop(tpl, t, previous, what, notAfter) ==
    LET c == current(tpl, t) IN
    IF c = NUL THEN t
    ELSE IF c # what THEN untilLoop(tpl, advance(tpl, t), c, what, notAfter)
    ELSE IF previous \notin notAfter THEN t
    ELSE untilLoop(tpl, advance(tpl, t), c, what, notAfter)

\* the scanner after until(what, notAfter...); it returns Slice(tpl, t.i, result.i)
until(tpl, t, what, notAfter) == untilLoop(tpl, t, NUL, what, notAfter)

RECURSIVE advanceN(_, _, _)
advanceN(tpl, t, n) == IF n = 0 THEN t ELSE advanceN(tpl, advance(tpl, t), n - 1)

(***************************************************************************)
(* The two lookahead patterns of match().  The pattern engine reads the     *)
(* remaining input as it is, so the end of the input is a length, not a     *)
(* rune.                                                                   *)
(***************************************************************************)
PatDoctype == <<"<","!","D","O","C","T","Y","P","E">>

PatHtml == <<"h","t","m","l">>

PatSystem == <<"S","Y","S","T","E","M">>

PatLegacy == <<"a","b","o","u","t",":","l","e","g","a","c","y","-","c","o","m","p","a","t">>

\* the code points of pat stand at offset pos of tpl
hasPrefix(tpl, pos, pat) ==
    /\ pos + Len(pat) <= Len(tpl)
    /\ \A k \in DOMAIN pat : tpl[pos + k] = pat[k]

\* the same under (?i)
hasPrefixFold(tpl, pos, pat) ==
    /\ pos + Len(pat) <= Len(tpl)
    /\ \A k \in DOMAIN pat : Fold(tpl[pos + k]) = Fold(pat[k])

\* \s of the pattern language: [\t\n\f\r ]
isPatternSpace(tpl, pos) == pos < Len(tpl) /\ tpl[pos + 1] \in {TAB, LF, FF, CR, SP}

\* the offset after the longest run of \s that starts at offset pos
RECURSIVE afterSpaces(_, _)
afterSpaces(tpl, pos) ==
    IF isPatternSpace(tpl, pos) THEN afterSpaces(tpl, pos + 1) ELSE pos

\* ^(?i)<!DOCTYPE\s+
matchDoctype(tpl, t) ==
    /\ hasPrefixFold(tpl, t.i, PatDoctype)
    /\ isPatternSpace(tpl, t.i + Len(PatDoctype))

\* ^(?i)html
matchHtml(tpl, t) == hasPrefixFold(tpl, t.i, PatHtml)

\* the legacy pattern under (?i)
matchLegacy_fold(tpl, t) ==
    /\ hasPrefixFold(tpl, t.i, PatSystem)
    /\ isPatternSpace(tpl, t.i + Len(PatSystem))
    /\ LET q == afterSpaces(tpl, t.i + Len(PatSystem)) IN
       \E quote \in {DQ, SQ} :
          /\ hasPrefixFold(tpl, q, <<quote>> \o PatLegacy \o <<quote>>)
          /\ hasPrefix(tpl, afterSpaces(tpl, q + Len(PatLegacy) + 2), <<">">>)

\* ^SYSTEM\s+("about:legacy-compat"|'about:legacy-compat')\s*>
matchLegacy(tpl, t) ==
    /\ hasPrefix(tpl, t.i, PatSystem)
    /\ isPatternSpace(tpl, t.i + Len(PatSystem))
    /\ LET q == afterSpaces(tpl, t.i + Len(PatSystem)) IN
       \E quote \in {DQ, SQ} :
          /\ hasPrefix(tpl, q, <<quote>> \o PatLegacy \o <<quote>>)
          /\ hasPrefix(tpl, afterSpaces(tpl, q + Len(PatLegacy) + 2), <<">">>)

(***************************************************************************)
(* Tokens.  kind is the Go type of the token; Kind(token) is its Kind().    *)
(***************************************************************************)
\* an Illegal that carries no Location
Illegal_unlocated(reason, t) ==
    [kind |-> "Illegal", reason |-> reason, loc |-> [line |-> 0, column |-> 0, cursor |-> 0]]

Illegal(reason, t) == [kind |-> "Illegal", reason |-> reason, loc |-> location(t)]

\* Location{} of an Attribute whose ValueLocation was never assigned
ZeroLocation == [line |-> 0, column |-> 0, cursor |-> 0]

\* the Doctype type is declared in no file of src/; it is a Token, so it has a Kind()
DoctypeKind == "DOCTYPE"

Kind(token) ==
    CASE token.kind = "StartTag" -> "START_TAG"
      [] token.kind = "EndTag"   -> "END_TAG"
      [] token.kind = "Text"     -> "TEXT"
      [] token.kind = "Illegal"  -> "ILLEGAL"
      [] token.kind = "Eof"      -> "EOF"
      [] token.kind = "Doctype"  -> DoctypeKind

(***************************************************************************)
(* The recognizers.  Each returns [tok |-> the token, t |-> the scanner].   *)
(***************************************************************************)
\* the reason of line 62, written without its backquotes
ReasonHtml == "expected html after <!DOCTYPE "

doctype(tpl, t0) ==
    LET loc == location(t0)
        t1  == skipWhitespace(tpl, advanceN(tpl, t0, Len(PatDoctype) + 1))
        t2  == skipWhitespace(tpl, advanceN(tpl, t1, Len(PatHtml)))
        t3  == advance(tpl, until(tpl, t2, ">", {}))
        gt  == consume(tpl, t2, ">")
    IN  IF ~matchHtml(tpl, t1)
        THEN [tok |-> Illegal(ReasonHtml, t1), t |-> t1]
        ELSE IF matchLegacy(tpl, t2)
        THEN [tok |-> [kind |-> "Doctype", isLegacy |-> TRUE, loc |-> loc], t |-> t3]
        ELSE IF ~gt.ok
        THEN [tok |-> Illegal("malformed DOCTYPE, expected closing angle bracket", gt.t),
              t |-> gt.t]
        ELSE [tok |-> [kind |-> "Doctype", isLegacy |-> FALSE, loc |-> loc], t |-> gt.t]

tagNameValidate(c) == isLetter(c) \/ c = "-" \/ c = ":"

RECURSIVE tagNameLoop(_, _, _)
tagNameLoop(tpl, t, start) ==
    LET c == current(tpl, t) IN
    IF isWhitespace(c) \/ c = NUL \/ c = ">"
    THEN [err |-> "", name |-> Slice(tpl, start, t.i), t |-> t]
    ELSE IF ~tagNameValidate(c)
    THEN [err |-> "unexpected character in tag name", name |-> <<>>, t |-> t]
    ELSE tagNameLoop(tpl, advance(tpl, t), start)

\* [err |-> the error text or "", name |-> the name, t |-> the scanner]
tagName(tpl, t) ==
    IF ~isLetter(current(tpl, t))
    THEN [err |-> "tag name must start with a letter", name |-> <<>>,
          t |-> advance(tpl, t)]
    ELSE tagNameLoop(tpl, advance(tpl, t), t.i)

attributeNameValidate(c) ==
    isDigit(c) \/ isLetter(c) \/ c = "-" \/ c = "_" \/ c = ":"

RECURSIVE attributeNameLoop(_, _, _)
attributeNameLoop(tpl, t, start) ==
    LET c == current(tpl, t) IN
    IF isWhitespace(c) \/ c = NUL \/ c = ">" \/ c = "="
    THEN IF is(tpl, t, {NUL})
         THEN [err |-> "unexpected end of input", name |-> <<>>, t |-> t]
         ELSE [err |-> "", name |-> Slice(tpl, start, t.i), t |-> t]
    ELSE IF ~attributeNameValidate(c)
    THEN [err |-> "unexpected character in attribute name", name |-> <<>>, t |-> t]
    ELSE attributeNameLoop(tpl, advance(tpl, t), start)

attributeName(tpl, t) ==
    IF ~attributeNameValidate(current(tpl, t))
    THEN [err |-> "attribute name must not start with a digit", name |-> <<>>, t |-> t]
    ELSE attributeNameLoop(tpl, t, t.i)

\* string() ending the value at the quote character that did not open it
string_otherQuote(tpl, t) ==
    LET open == current(tpl, t)
        t1   == advance(tpl, t)
        t2   == until(tpl, t1, IF open = DQ THEN SQ ELSE DQ, {BS})
        c    == current(tpl, t2)
        t3   == advance(tpl, t2)
    IN  IF c # DQ /\ c # SQ
        THEN [err |-> "expected closing quote", literal |-> <<>>, t |-> t3]
        ELSE [err |-> "", literal |-> Slice(tpl, t1.i, t2.i), t |-> t3]

\* string() without the check of the closing quote
string_unchecked(tpl, t) ==
    LET t1 == advance(tpl, t)
        t2 == until(tpl, t1, current(tpl, t), {BS})
    IN  [err |-> "", literal |-> Slice(tpl, t1.i, t2.i), t |-> advance(tpl, t2)]

\* string(): [err, literal, t]
string(tpl, t) ==
    LET open == current(tpl, t)
        t1   == advance(tpl, t)
        t2   == until(tpl, t1, open, {BS})
        c    == current(tpl, t2)
        t3   == advance(tpl, t2)
    IN  IF c # DQ /\ c # SQ
        THEN [err |-> "expected closing quote", literal |-> <<>>, t |-> t3]
        ELSE [err |-> "", literal |-> Slice(tpl, t1.i, t2.i), t |-> t3]

\* the map keeping the entry it already has for the name
PutAttribute_keepFirst(attributes, attribute) ==
    [n \in DOMAIN attributes \cup {attribute.name} |->
        IF n \in DOMAIN attributes THEN attributes[n] ELSE attribute]

\* tag.Attributes[attribute.Name] = attribute
PutAttribute(attributes, attribute) ==
    [n \in DOMAIN attributes \cup {attribute.name} |->
        IF n = attribute.name THEN attribute ELSE attributes[n]]

\* the attribute loop of startTag() and what follows it
RECURSIVE startTagLoop(_, _, _)
startTagLoop(tpl, t, tag) ==
    IF is(tpl, t, {">", "/"})
    THEN LET slash == consume(tpl, t, "/")
             gt    == consume(tpl, slash.t, ">")
         IN  IF ~gt.ok
             THEN [tok |-> Illegal("expected closing angle bracket", gt.t), t |-> gt.t]
             ELSE [tok |-> [tag EXCEPT !.isSelfClosing = slash.ok], t |-> gt.t]
    ELSE LET nameLocation == location(t)
             an == attributeName(tpl, t)
             eq == consume(tpl, skipWhitespace(tpl, an.t), "=")
             tv == skipWhitespace(tpl, eq.t)
             s  == string(tpl, tv)
             attribute ==
                 IF eq.ok
                 THEN [name |-> an.name, value |-> s.literal,
                       nameLocation |-> nameLocation, valueLocation |-> location(tv)]
                 ELSE [name |-> an.name, value |-> <<>>,
                       nameLocation |-> nameLocation, valueLocation |-> ZeroLocation]
             after == IF eq.ok THEN s.t ELSE eq.t
         IN  IF an.err # ""
             THEN [tok |-> Illegal(an.err, an.t), t |-> an.t]
             ELSE IF eq.ok /\ ~is(tpl, tv, {DQ, SQ})
             THEN [tok |-> Illegal("expected quotes in attribute definition", tv), t |-> tv]
             ELSE IF eq.ok /\ s.err # ""
             THEN [tok |-> Illegal(s.err, s.t), t |-> s.t]
             ELSE startTagLoop(tpl, skipWhitespace(tpl, after),
                               [tag EXCEPT !.attributes = PutAttribute(@, attribute)])

startTag(tpl, t0) ==
    LET t1 == advance(tpl, t0)
        tn == tagName(tpl, t1)
        tag == [kind |-> "StartTag", name |-> tn.name, attributes |-> <<>>,
                isSelfClosing |-> FALSE, loc |-> location(t0)]
    IN  IF ~isLetter(current(tpl, t1))
        THEN [tok |-> Illegal("expected tag name", t1), t |-> t1]
        ELSE IF tn.err # ""
        THEN [tok |-> Illegal(tn.err, tn.t), t |-> tn.t]
        ELSE startTagLoop(tpl, skipWhitespace(tpl, tn.t), tag)

\* endTag() without the check of the closing angle bracket
endTag_lenient(tpl, t0) ==
    LET t2 == advance(tpl, advance(tpl, t0))
        tn == tagName(tpl, t2)
        gt == consume(tpl, skipWhitespace(tpl, tn.t), ">")
    IN  IF ~isLetter(current(tpl, t2))
        THEN [tok |-> Illegal("expected tag name", t2), t |-> t2]
        ELSE IF tn.err # ""
        THEN [tok |-> Illegal(tn.err, tn.t), t |-> tn.t]
        ELSE [tok |-> [kind |-> "EndTag", name |-> tn.name, loc |-> location(t0)],
              t |-> gt.t]

\* endTag() giving up on a missing name before it has consumed "</"
endTag_stuck(tpl, t0) ==
    LET t2 == advance(tpl, advance(tpl, t0))
        tn == tagName(tpl, t2)
        gt == consume(tpl, skipWhitespace(tpl, tn.t), ">")
    IN  IF ~isLetter(current(tpl, t2))
        THEN [tok |-> Illegal("expected tag name", t0), t |-> t0]
        ELSE IF tn.err # ""
        THEN [tok |-> Illegal(tn.err, tn.t), t |-> tn.t]
        ELSE IF ~gt.ok
        THEN [tok |-> Illegal("expected closing angle bracket", gt.t), t |-> gt.t]
        ELSE [tok |-> [kind |-> "EndTag", name |-> tn.name, loc |-> location(t0)],
              t |-> gt.t]

endTag(tpl, t0) ==
    LET t2 == advance(tpl, advance(tpl, t0))
        tn == tagName(tpl, t2)
        gt == consume(tpl, skipWhitespace(tpl, tn.t), ">")
    IN  IF ~isLetter(current(tpl, t2))
        THEN [tok |-> Illegal("expected tag name", t2), t |-> t2]
        ELSE IF tn.err # ""
        THEN [tok |-> Illegal(tn.err, tn.t), t |-> tn.t]
        ELSE IF ~gt.ok
        THEN [tok |-> Illegal("expected closing angle bracket", gt.t), t |-> gt.t]
        ELSE [tok |-> [kind |-> "EndTag", name |-> tn.name, loc |-> location(t0)],
              t |-> gt.t]

\* the text loop stopping at every "<"
textContinues_anyLt(tpl, t) == ~is(tpl, t, {NUL}) /\ ~is(tpl, t, {"<"})

\* the condition of the text loop of next()
textContinues(tpl, t) ==
    /\ ~is(tpl, t, {NUL})
    /\ \/ ~is(tpl, t, {"<"})
       \/ /\ is(tpl, t, {"<"})
          /\ ~isLetter(peek(tpl, t))
          /\ peek(tpl, t) # "/"
          /\ peek(tpl, t) # "!"

RECURSIVE textLoop(_, _)
textLoop(tpl, t) ==
    IF textContinues(tpl, t) THEN textLoop(tpl, advance(tpl, t)) ELSE t

\* text() with the value cut one code point short
text_short(tpl, t0) ==
    LET t1 == textLoop(tpl, t0) IN
    [tok |-> [kind |-> "Text", value |-> Slice(tpl, t0.i, t1.i - 1), loc |-> location(t0)],
     t |-> t1]

text(tpl, t0) ==
    LET t1 == textLoop(tpl, t0) IN
    [tok |-> [kind |-> "Text", value |-> Slice(tpl, t0.i, t1.i), loc |-> location(t0)],
     t |-> t1]

next(tpl, t) ==
    IF matchDoctype(tpl, t) THEN doctype(tpl, t)
    ELSE IF is(tpl, t, {"<"}) /\ peek(tpl, t) = "/" THEN endTag(tpl, t)
    ELSE IF is(tpl, t, {"<"}) /\ isLetter(peek(tpl, t)) THEN startTag(tpl, t)
    ELSE IF is(tpl, t, {NUL}) THEN [tok |-> [kind |-> "Eof", loc |-> location(t)], t |-> t]
    ELSE text(tpl, t)

(***************************************************************************)
(* The templates the model is run on.                                       *)
(***************************************************************************)
\* the longest template over Sigma
MaxLen == 3

\* the largest number of attributes written in a template of TagTemplates
MaxAttrs == 2

\* the largest number of pulls on one scanner
MaxPulls == 6

Sigma == {"<", ">", "/", "!", "a", SP, LF, NUL}

Strings(n) == UNION {[1..k -> Sigma] : k \in 0..n}

\* the template of TestTokenize
TestTemplate ==
    <<"<", "!", "D", "O", "C", "T", "Y", "P", "E", SP, "h", "t", "m", "l", SP, "S",
      "Y", "S", "T", "E", "M", SP, SQ, "a", "b", "o", "u", "t", ":", "l", "e", "g",
      "a", "c", "y", "-", "c", "o", "m", "p", "a", "t", SQ, ">", "<", "d", "i", "v",
      SP, "i", "d", "=", DQ, "c", "o", "n", DQ, SP, "d", "a", "t", "a", "-", "c", "o",
      "u", "n", "t", "=", SQ, "d", "a", "t", "a", "1", "-", "2", "3", SQ, SP, "a", "1",
      "3", "=", DQ, "a", "b", "c", DQ, SP, "a", "a", "a", "=", DQ, DQ, SP, "d", "a",
      "t", "a", "-", "1", "3", "=", SQ, "t", "r", "u", "e", SQ, ">", SP, "5", SP, "<",
      SP, "5", SP, "<", "/", "d", "i", "v", ">">>

TagHeads ==
    {<<"<","d","i","v">>,
     <<"<","h","1">>,
     <<"<","/","d","i","v">>}

AttrTexts ==
    {<<SP,"b">>,
     <<SP,"b","=",DQ,DQ>>,
     <<SP,"b","=",DQ,"x",DQ>>,
     <<SP,"c","=",SQ,"x",SQ>>,
     <<SP,"b","=",DQ,"x",SQ>>,
     <<SP,"b","=",DQ,"x",SQ,"y",DQ>>,
     <<SP,"b","=",DQ,"x",NUL,DQ>>,
     <<SP,"b","=",DQ,"x",BS,DQ,"y",DQ>>,
     <<SP,"b","=","x">>,
     <<SP,"1","b",SP,"=",SP,DQ,"x",DQ>>,
     <<LF,"c">>,
     <<SP,"b","=",DQ,BS,DQ>>}

TagTails ==
    {<<">">>,
     <<"/",">">>,
     <<SP,"/",">">>,
     <<>>,
     <<">","x">>}

RECURSIVE AttrLists(_)
AttrLists(n) ==
    IF n = 0 THEN {<<>>}
    ELSE AttrLists(n - 1) \cup {l \o a : l \in AttrLists(n - 1), a \in AttrTexts}

TagTemplates(n) == {h \o l \o e : h \in TagHeads, l \in AttrLists(n), e \in TagTails}

DoctypeOpens ==
    {<<"<","!","D","O","C","T","Y","P","E">>,
     <<"<","!","d","o","c","t","y","p","e">>}

DoctypeNames ==
    {<<"h","t","m","l">>,
     <<"h","T","m","L">>,
     <<"h","t","m">>,
     <<>>}

DoctypeClauses ==
    {<<>>,
     <<"S","Y","S","T","E","M",SP,DQ,"a","b","o","u","t",":","l","e","g","a","c","y","-","c","o","m","p","a","t",DQ>>,
     <<"S","Y","S","T","E","M",SP,SQ,"a","b","o","u","t",":","l","e","g","a","c","y","-","c","o","m","p","a","t",SQ>>,
     <<"s","y","s","t","e","m",SP,DQ,"a","b","o","u","t",":","l","e","g","a","c","y","-","c","o","m","p","a","t",DQ>>,
     <<"S","y","s","t","e","m",SP,SQ,"a","b","o","u","t",":","l","e","g","a","c","y","-","c","o","m","p","a","t",SQ>>,
     <<"S","Y","S","T","E","M",SP,DQ,"a","b","o","u","t",":","l","e","g","a","c","y","-","c","o","m","p","a","t",SQ>>,
     <<"S","Y","S","T","E","M",DQ,"a","b","o","u","t",":","l","e","g","a","c","y","-","c","o","m","p","a","t",DQ>>,
     <<"S","Y","S","T","E","M",SP,LF,SQ,"a","b","o","u","t",":","l","e","g","a","c","y","-","c","o","m","p","a","t",SQ>>,
     <<"S","Y","S","T","E","M",SP,DQ,"a","b","o","u","t",":","l","e","g","a","c","y",DQ>>,
     <<"P","U","B","L","I","C",SP,DQ,"x",DQ>>}

DoctypeTemplates ==
    {o \o w1 \o n \o w2 \o c \o w3 \o e \o r :
        o \in DoctypeOpens, w1 \in {<<>>, <<SP>>, <<LF, TAB>>},
        n \in DoctypeNames, w2 \in {<<>>, <<SP>>}, c \in DoctypeClauses,
        w3 \in {<<>>, <<SP>>}, e \in {<<">">>, <<>>, <<"x", ">">>},
        r \in {<<>>, <<"x">>}}

Templates ==
    Strings(MaxLen) \cup TagTemplates(MaxAttrs) \cup DoctypeTemplates \cup {TestTemplate}

\* the templates two Tokenize calls are run on side by side
TwoCallTemplates == Strings(MaxLen - 1) \cup TagTemplates(MaxAttrs - 1) \cup {TestTemplate}

(***************************************************************************)
(* Tokenize: calls is the set of Tokenize calls made on the template, each  *)
(* with its own Tokenizer tk[k]; status[k] is where the loop of the         *)
(* sequence stands, out[k] the tokens it has yielded, last[k] every pull of *)
(* the call: the scanner before it, the token next() returned and the       *)
(* scanner after it.                                                        *)
(***************************************************************************)
TokenizeInit ==
    /\ tk = [k \in calls |-> NewTokenizer]
    /\ status = [k \in calls |-> "idle"]
    /\ out = [k \in calls |-> <<>>]
    /\ last = [k \in calls |-> <<>>]

Init ==
    /\ template \in Templates
    /\ calls = {1}
    /\ TokenizeInit

InitTwo ==
    /\ template \in TwoCallTemplates
    /\ calls = {1, 2}
    /\ TokenizeInit

\* the loop ending at an Illegal token as well
LoopGoesOn_stopAtIllegal(token) == Kind(token) \notin {"EOF", "ILLEGAL"}

\* token.Kind() != "EOF"
LoopGoesOn(token) == Kind(token) # "EOF"

\* Step(k) with one Tokenizer shared by all the calls
Step_shared(k) ==
    LET r == next(template, tk[k]) IN
    /\ Len(last[k]) < MaxPulls
    /\ tk' = [j \in calls |-> r.t]
    /\ last' = [last EXCEPT ![k] = Append(@, [from |-> tk[k], tok |-> r.tok, to |-> r.t])]
    /\ IF LoopGoesOn(r.tok)
       THEN /\ out' = [out EXCEPT ![k] = Append(@, r.tok)]
            /\ \E more \in BOOLEAN :
                  status' = [status EXCEPT ![k] = IF more THEN "running" ELSE "stopped"]
       ELSE /\ out' = out
            /\ status' = [status EXCEPT ![k] = "done"]
    /\ UNCHANGED <<template, calls>>

\* one t.next() and the loop condition after it: the token is yielded unless it
\* is Eof, and the consumer answers whether it wants more
Step(k) ==
    LET r == next(template, tk[k]) IN
    /\ Len(last[k]) < MaxPulls
    /\ tk' = [tk EXCEPT ![k] = r.t]
    /\ last' = [last EXCEPT ![k] = Append(@, [from |-> tk[k], tok |-> r.tok, to |-> r.t])]
    /\ IF LoopGoesOn(r.tok)
       THEN /\ out' = [out EXCEPT ![k] = Append(@, r.tok)]
            /\ \E more \in BOOLEAN :
                  status' = [status EXCEPT ![k] = IF more THEN "running" ELSE "stopped"]
       ELSE /\ out' = out
            /\ status' = [status EXCEPT ![k] = "done"]
    /\ UNCHANGED <<template, calls>>

\* the consumer starts to range over the sequence: the init statement of the loop
Iterate(k) ==
    /\ status[k] = "idle"
    /\ Step(k)

\* the consumer asked for more: the post statement of the loop
Pull(k) ==
    /\ status[k] = "running"
    /\ Step(k)

Next == \E k \in calls : Iterate(k) \/ Pull(k)

Spec == Init /\ [][Next]_vars

SpecTwo == InitTwo /\ [][Next]_vars

\* a second iteration that starts over with a fresh Tokenizer
Again_restart(k) ==
    LET r == next(template, NewTokenizer) IN
    /\ status[k] \in {"stopped", "done"}
    /\ Len(last[k]) < MaxPulls
    /\ tk' = [tk EXCEPT ![k] = r.t]
    /\ last' = [last EXCEPT ![k] = Append(@, [from |-> NewTokenizer, tok |-> r.tok,
                                               to |-> r.t])]
    /\ IF LoopGoesOn(r.tok)
       THEN /\ out' = [out EXCEPT ![k] = Append(@, r.tok)]
            /\ \E more \in BOOLEAN :
                  status' = [status EXCEPT ![k] = IF more THEN "running" ELSE "stopped"]
       ELSE /\ out' = out
            /\ status' = [status EXCEPT ![k] = "done"]
    /\ UNCHANGED <<template, calls>>

\* the consumer ranges over the same sequence value once more: the function
\* Tokenize returned runs again, and its loop starts with t.next() on the
\* Tokenizer the closure captured, which is where the earlier iteration left it
Again(k) ==
    /\ status[k] \in {"stopped", "done"}
    /\ Step(k)

NextAgain == \E k \in calls : Iterate(k) \/ Pull(k) \/ Again(k)

SpecAgain == Init /\ [][NextAgain]_vars

(***************************************************************************)
(* What the properties below speak of.                                     *)
(***************************************************************************)
\* the code point at 0-based offset pos; "" past the end (no code point is "")
At(pos) == IF pos < Len(template) THEN template[pos + 1] ELSE ""

Pulls(k) == {last[k][j] : j \in DOMAIN last[k]}

\* offsets from..to-1 hold a tag name: a letter, then letters, - or :
TagNameAt(from, to) ==
    /\ from < to
    /\ to <= Len(template)
    /\ isLetter(At(from))
    /\ \A q \in from..(to - 1) : isLetter(At(q)) \/ At(q) \in {"-", ":"}

IsIllegal(tok, reason) == tok.kind = "Illegal" /\ tok.reason = reason

(***************************************************************************)
(* C1.  A template without "<" yields exactly one token, a Text whose value *)
(* is the whole template and whose cursor is 0, and then the stream ends.   *)
(***************************************************************************)
NoLt == \A j \in DOMAIN template : template[j] # "<"

C1_NoLtOneText ==
    \A k \in calls :
        NoLt /\ status[k] # "idle" =>
            /\ Len(out[k]) = 1
            /\ out[k][1].kind = "Text"
            /\ out[k][1].value = template
            /\ out[k][1].loc.cursor = 0

\* the offset of the first U+0000 of the template, its length when it has none
FirstNul ==
    IF \E q \in 0..(Len(template) - 1) : At(q) = NUL
    THEN CHOOSE q \in 0..(Len(template) - 1) :
            At(q) = NUL /\ \A r \in 0..(q - 1) : At(r) # NUL
    ELSE Len(template)

\* C1 as amended.  A template without "<" yields at most one token: none when
\* it is empty or begins with U+0000, and otherwise exactly one Text, with cursor
\* 0, whose value is the template up to its first U+0000 (the whole template when
\* it has none); then the stream ends.
C1_NoLtAtMostOneText ==
    \A k \in calls :
        NoLt /\ status[k] # "idle" =>
            IF FirstNul = 0
            THEN out[k] = <<>> /\ status[k] = "done"
            ELSE /\ Len(out[k]) = 1
                 /\ out[k][1].kind = "Text"
                 /\ out[k][1].value = Slice(template, 0, FirstNul)
                 /\ out[k][1].loc.cursor = 0
                 /\ Len(last[k]) = 2 => status[k] = "done"

C1_Witness ==
    \E k \in calls :
        /\ NoLt
        /\ Len(template) = MaxLen
        /\ status[k] = "done"
        /\ Len(out[k]) = 1
        /\ out[k][1].value = template

(***************************************************************************)
(* C2.  The stream ends in exactly two ways: a pull returns Eof, which is   *)
(* not yielded, or the consumer declines to continue, after which next() is *)
(* not called and the scanner does not move.  Every other token, Illegal    *)
(* included, is yielded, and if the consumer continues the next pull is     *)
(* made.                                                                   *)
(***************************************************************************)
LastToken(k) == last[k][Len(last[k])].tok

C2_State(k) ==
    /\ \A j \in DOMAIN out[k] : out[k][j].kind # "Eof"
    /\ status[k] = "idle" <=> last[k] = <<>>
    /\ status[k] = "done" <=> (last[k] # <<>> /\ LastToken(k).kind = "Eof")
    /\ Len(out[k]) = Len(last[k]) - (IF status[k] = "done" THEN 1 ELSE 0)
    /\ \A j \in DOMAIN out[k] : out[k][j] = last[k][j].tok

C2_Step(k) ==
    /\ status[k] \in {"stopped", "done"} =>
          /\ tk'[k] = tk[k]
          /\ out'[k] = out[k]
          /\ last'[k] = last[k]
          /\ status'[k] = status[k]
    /\ status[k] \in {"idle", "running"} /\ last'[k] # last[k] =>
          /\ Len(last'[k]) = Len(last[k]) + 1
          /\ status'[k] = "done" <=> LastToken(k)'.kind = "Eof"
          /\ status'[k] \in {"running", "stopped", "done"}

C2_StreamEnds ==
    /\ [](\A k \in calls : C2_State(k))
    /\ [][\A k \in calls : C2_Step(k)]_vars

C2_Witness ==
    \E k \in calls :
        /\ status[k] = "done"
        /\ \E j \in DOMAIN out[k] : out[k][j].kind = "Illegal" /\ j < Len(out[k])

(***************************************************************************)
(* C3.  A start tag cut off by the end of the input right after its tag     *)
(* name yields Illegal "expected closing angle bracket".                    *)
(***************************************************************************)
C3_CutOffTag ==
    \A k \in calls : \A p \in Pulls(k) :
        At(p.from.i) = "<" /\ TagNameAt(p.from.i + 1, Len(template)) =>
            IsIllegal(p.tok, "expected closing angle bracket")

(***************************************************************************)
(* C4.  "<" name "/" ">" yields a StartTag of that name with isSelfClosing  *)
(* true, and no Illegal.                                                   *)
(***************************************************************************)
C4_SlashAfterName ==
    \A k \in calls : \A p \in Pulls(k) : \A e \in 0..Len(template) :
        /\ At(p.from.i) = "<"
        /\ TagNameAt(p.from.i + 1, e)
        /\ At(e) = "/"
        /\ At(e + 1) = ">"
        => /\ p.tok.kind = "StartTag"
           /\ p.tok.name = Slice(template, p.from.i + 1, e)
           /\ p.tok.isSelfClosing

(***************************************************************************)
(* C5.  The template of TestTokenize tokenizes with no Illegal token.  A    *)
(* "<" whose next code point is not a letter, "/" or "!" (or that is the    *)
(* last code point) starts no tag and does not end a Text run: a pull that  *)
(* begins at it returns a Text that holds it, and no Text stops at it.      *)
(***************************************************************************)
BareLt(pos) ==
    /\ At(pos) = "<"
    /\ ~isLetter(At(pos + 1))
    /\ At(pos + 1) \notin {"/", "!"}

C5_BareLtInText ==
    \A k \in calls :
        /\ template = TestTemplate =>
              /\ \A p \in Pulls(k) : p.tok.kind # "Illegal"
              /\ status[k] = "done" =>
                    /\ [j \in DOMAIN out[k] |-> out[k][j].kind]
                          = <<"Doctype", "StartTag", "Text", "EndTag">>
                    /\ out[k][3].value = <<SP, "5", SP, "<", SP, "5", SP>>
        /\ \A p \in Pulls(k) :
              /\ BareLt(p.from.i) => p.tok.kind = "Text" /\ p.to.i > p.from.i
              /\ p.tok.kind = "Text" =>
                    /\ ~BareLt(p.to.i)
                    /\ p.tok.value = Slice(template, p.from.i, p.to.i)

C5_Witness ==
    \E k \in calls :
        /\ template = TestTemplate
        /\ status[k] = "done"
        /\ \E p \in Pulls(k) :
              p.tok.kind = "Text" /\ \E q \in p.from.i..(p.to.i - 1) : BareLt(q)

(***************************************************************************)
(* C6.  In a start tag, a quoted attribute value that reaches the end of    *)
(* the input before a closing quote yields Illegal "expected closing        *)
(* quote".  The tag is written  "<" name, whitespace, attribute names       *)
(* without values, then a name, "=", and the opening quote, after which no  *)
(* code point ends the value.                                              *)
(***************************************************************************)
TagNameCodePoints == Range(LowerSeq) \cup Range(UpperSeq) \cup {"-", ":"}

AttributeNameCodePoints ==
    Range(LowerSeq) \cup Range(UpperSeq) \cup {"-", "_", ":"}
        \cup {"0","1","2","3","4","5","6","7","8","9"}

WhitespaceCodePoints == {TAB, LF, FF, CR, SP}

\* the first offset from pos on whose code point is not in set (or the length)
RECURSIVE After(_, _)
After(pos, set) == IF At(pos) \in set THEN After(pos + 1, set) ELSE pos

\* the tag that begins with "<" at offset lt is written: a tag name, whitespace,
\* names and whitespace ending in a name, optional whitespace, "=", optional
\* whitespace, a quote; the result is the offset of that quote, or -1
OpeningQuote(lt) ==
    LET n == After(lt + 1, TagNameCodePoints)
        e == After(n, WhitespaceCodePoints \cup AttributeNameCodePoints)
        q == After(e + 1, WhitespaceCodePoints)
    IN  IF /\ At(lt) = "<"
           /\ isLetter(At(lt + 1))
           /\ At(n) \in WhitespaceCodePoints
           /\ At(e) = "="
           /\ \E r \in n..(e - 1) :
                 /\ At(r) \in AttributeNameCodePoints
                 /\ \A w \in (r + 1)..(e - 1) : At(w) \in WhitespaceCodePoints
           /\ At(q) \in {DQ, SQ}
        THEN q
        ELSE -1

\* no code point after the opening quote at offset q ends the value
ValueRunsToEnd(q) ==
    \A r \in (q + 1)..(Len(template) - 1) :
        /\ At(r) # NUL
        /\ At(r) = At(q) => r > q + 1 /\ At(r - 1) = BS

C6_UnterminatedValue ==
    \A k \in calls : \A p \in Pulls(k) :
        LET q == OpeningQuote(p.from.i) IN
        q >= 0 /\ ValueRunsToEnd(q) =>
            /\ IsIllegal(p.tok, "expected closing quote")
            /\ p.to.i = Len(template)

C6_Witness ==
    \E k \in calls : \E p \in Pulls(k) :
        LET q == OpeningQuote(p.from.i) IN
        /\ q >= 0
        /\ ValueRunsToEnd(q)
        /\ \E r \in (q + 2)..(Len(template) - 1) : At(r) \in {DQ, SQ}
        /\ IsIllegal(p.tok, "expected closing quote")

(***************************************************************************)
(* C7.  A pull that begins at "<!DOCTYPE" and whitespace (in any letter     *)
(* case) and returns a Doctype: isLegacy is true exactly if, after html (in *)
(* any letter case) and optional whitespace, the template goes on with      *)
(* SYSTEM, whitespace, about:legacy-compat in matching quotes, optional     *)
(* whitespace and ">"; otherwise isLegacy is false and ">" follows html.    *)
(* system in another letter case yields Illegal, never a Doctype.  The      *)
(* scanner ends just past the closing ">".                                  *)
(***************************************************************************)
\* the code points of word stand at offset pos
WordAt(pos, word) == \A j \in DOMAIN word : At(pos + j - 1) = word[j]

\* the same in any letter case
WordAtAnyCase(pos, word) == \A j \in DOMAIN word : Fold(At(pos + j - 1)) = Fold(word[j])

DoctypeOpensAt(pos) ==
    WordAtAnyCase(pos, <<"<","!","d","o","c","t","y","p","e">>)
        /\ At(pos + 9) \in WhitespaceCodePoints

\* the offset where html has to stand in the doctype that opens at pos
HtmlOffset(pos) == After(pos + 9, WhitespaceCodePoints)

\* the offset after html and the whitespace that follows it
ClauseOffset(pos) == After(HtmlOffset(pos) + 4, WhitespaceCodePoints)

\* the offset of the opening quote of the clause that begins at offset c
ClauseQuote(c) == After(c + 6, WhitespaceCodePoints)

\* the offset of the ">" that closes the clause that begins at offset c
ClauseEnd(c) == After(ClauseQuote(c) + 21, WhitespaceCodePoints)

LegacyClauseAt(c) ==
    /\ WordAt(c, <<"S","Y","S","T","E","M">>)
    /\ At(c + 6) \in WhitespaceCodePoints
    /\ At(ClauseQuote(c)) \in {DQ, SQ}
    /\ WordAt(ClauseQuote(c) + 1,
              <<"a","b","o","u","t",":","l","e","g","a","c","y","-","c","o","m","p","a","t">>)
    /\ At(ClauseQuote(c) + 20) = At(ClauseQuote(c))
    /\ At(ClauseEnd(c)) = ">"

\* what C7 says of a pull p but where the ">" of a Doctype without the clause stands
C7_Common(p) ==
    LET c == ClauseOffset(p.from.i) IN
    /\ p.tok.kind = "Doctype" =>
          /\ WordAtAnyCase(HtmlOffset(p.from.i), <<"h","t","m","l">>)
          /\ p.tok.isLegacy <=> LegacyClauseAt(c)
          /\ p.tok.isLegacy => p.to.i = ClauseEnd(c) + 1
          /\ At(p.to.i - 1) = ">"
    /\ /\ WordAtAnyCase(HtmlOffset(p.from.i), <<"h","t","m","l">>)
       /\ WordAtAnyCase(c, <<"s","y","s","t","e","m">>)
       /\ ~WordAt(c, <<"S","Y","S","T","E","M">>)
       => IsIllegal(p.tok, "malformed DOCTYPE, expected closing angle bracket")

\* C7 as written: without the clause, ">" follows html directly
C7_DoctypeDirect ==
    \A k \in calls : \A p \in Pulls(k) :
        DoctypeOpensAt(p.from.i) =>
            /\ C7_Common(p)
            /\ p.tok.kind = "Doctype" /\ ~p.tok.isLegacy =>
                  /\ At(HtmlOffset(p.from.i) + 4) = ">"
                  /\ p.to.i = HtmlOffset(p.from.i) + 5

\* C7 as amended: without the clause, ">" is the first code point after html and
\* the optional whitespace that follows it
C7_Doctype ==
    \A k \in calls : \A p \in Pulls(k) :
        DoctypeOpensAt(p.from.i) =>
            /\ C7_Common(p)
            /\ p.tok.kind = "Doctype" /\ ~p.tok.isLegacy =>
                  /\ At(ClauseOffset(p.from.i)) = ">"
                  /\ p.to.i = ClauseOffset(p.from.i) + 1

C7_Witness ==
    \E k \in calls : \E p \in Pulls(k) :
        /\ DoctypeOpensAt(p.from.i)
        /\ p.tok.kind = "Doctype"
        /\ p.tok.isLegacy
        /\ At(ClauseQuote(ClauseOffset(p.from.i))) = SQ
        /\ ClauseEnd(ClauseOffset(p.from.i)) > ClauseQuote(ClauseOffset(p.from.i)) + 21
        /\ p.to.i < Len(template)

(***************************************************************************)
(* C8.  In every scanner state line is 1 + the number of line feeds before  *)
(* the cursor and column is 1 + the number of code points between the last  *)
(* of them (or the start) and the cursor: advance() over a line feed adds 1 *)
(* to line and makes column 1, over any other code point it adds 1 to       *)
(* column.  The Location of every token obeys the same relation.            *)
(***************************************************************************)
LineFeedsBefore(n) == Cardinality({q \in 0..(n - 1) : At(q) = LF})

\* the offset at which the line of offset n begins
LineStart(n) ==
    IF \E q \in 0..(n - 1) : At(q) = LF
    THEN 1 + CHOOSE q \in 0..(n - 1) : At(q) = LF /\ \A r \in (q + 1)..(n - 1) : At(r) # LF
    ELSE 0

LineColumnAt(line, column, cursor) ==
    /\ line = 1 + LineFeedsBefore(cursor)
    /\ column = 1 + cursor - LineStart(cursor)

\* one advance() from scanner s to scanner n
AdvanceCounts(s, n) ==
    /\ At(s.i) = LF => n.line = s.line + 1 /\ n.column = 1
    /\ At(s.i) \notin {LF, NUL, ""} => n.line = s.line /\ n.column = s.column + 1
    /\ At(s.i) \in {NUL, ""} => n = s
    /\ At(s.i) \notin {NUL, ""} => n.i = s.i + 1

\* the scanner states from s on, one advance() each, up to the state to
RECURSIVE TrailCounts(_, _)
TrailCounts(s, to) ==
    /\ LineColumnAt(s.line, s.column, s.i)
    /\ IF s.i >= to.i
       THEN s = to
       ELSE /\ AdvanceCounts(s, advance(template, s))
            /\ TrailCounts(advance(template, s), to)

C8_LineColumn ==
    \A k \in calls :
        /\ LineColumnAt(tk[k].line, tk[k].column, tk[k].i)
        /\ AdvanceCounts(tk[k], advance(template, tk[k]))
        /\ last[k] # <<>> =>
              LET p == last[k][Len(last[k])] IN
              /\ TrailCounts(p.from, p.to)
              /\ p.to = tk[k]
              /\ LineColumnAt(p.tok.loc.line, p.tok.loc.column, p.tok.loc.cursor)
        /\ \A j \in DOMAIN out[k] :
              LineColumnAt(out[k][j].loc.line, out[k][j].loc.column, out[k][j].loc.cursor)

C8_Witness ==
    \E k \in calls : \E p \in Pulls(k) :
        /\ p.from.line = 1
        /\ p.to.line = 3
        /\ p.to.column = 3
        /\ p.tok.kind = "StartTag"

(***************************************************************************)
(* C9.  Two Tokenize calls on one template, pulled in any interleaving,     *)
(* yield the same tokens from the same scanner states: the pulls of one are *)
(* a prefix of the pulls of the other, and a pull on one call leaves the    *)
(* scanner, the tokens and the loop of the other call as they were.         *)
(***************************************************************************)
IsPrefix(a, b) == Len(a) <= Len(b) /\ \A j \in DOMAIN a : a[j] = b[j]

C9_State ==
    \A k \in calls : \A j \in calls :
        /\ IsPrefix(last[k], last[j]) \/ IsPrefix(last[j], last[k])
        /\ IsPrefix(out[k], out[j]) \/ IsPrefix(out[j], out[k])
        /\ Len(last[k]) = Len(last[j]) => tk[k] = tk[j]
        /\ status[k] = "done" /\ status[j] = "done" => out[k] = out[j]

C9_Step ==
    \A k \in calls :
        last'[k] # last[k] =>
            \A j \in calls \ {k} :
                /\ tk'[j] = tk[j]
                /\ out'[j] = out[j]
                /\ last'[j] = last[j]
                /\ status'[j] = status[j]

C9_Independent == []C9_State /\ [][C9_Step]_vars

C9_Witness ==
    /\ calls = {1, 2}
    /\ status[1] = "done"
    /\ Len(out[1]) >= 3
    /\ status[2] = "running"
    /\ Len(out[2]) = 2
    /\ tk[2].i > 0

(***************************************************************************)
(* C10.  An attribute of a yielded StartTag that was written without        *)
(* "=value" has the empty value and a valueLocation equal to its            *)
(* nameLocation; one written with a value has the Location of its opening   *)
(* quote as valueLocation.                                                 *)
(***************************************************************************)
\* the offset of the first code point after the name of attribute a and the
\* whitespace that follows it
AfterName(a) == After(a.nameLocation.cursor + Len(a.name), WhitespaceCodePoints)

C10_AttributeDefaults ==
    \A k \in calls : \A j \in DOMAIN out[k] :
        out[k][j].kind = "StartTag" =>
            \A n \in DOMAIN out[k][j].attributes :
                LET a == out[k][j].attributes[n] IN
                IF At(AfterName(a)) # "="
                THEN a.value = <<>> /\ a.valueLocation = a.nameLocation
                ELSE /\ a.valueLocation.cursor = After(AfterName(a) + 1, WhitespaceCodePoints)
                     /\ At(a.valueLocation.cursor) \in {DQ, SQ}
                     /\ LineColumnAt(a.valueLocation.line, a.valueLocation.column,
                                     a.valueLocation.cursor)

(***************************************************************************)
(* C11: Eof and the end of the input                                       *)
(***************************************************************************)
\* a pull that begins with the cursor at the end of the input returns Eof at the
\* place it began and moves nothing
EofStays(p) ==
    /\ p.tok.kind = "Eof"
    /\ p.tok.loc = location(p.from)
    /\ p.to = p.from

\* C11: a pull returns Eof only when the cursor equals the length of the input,
\* and every pull that begins with the cursor at the end of the input returns
\* Eof with that same location and leaves cursor, line and column unchanged
C11_EofAtEnd ==
    \A k \in calls : \A p \in Pulls(k) :
        /\ p.tok.kind = "Eof" => p.from.i = Len(template)
        /\ p.from.i = Len(template) => EofStays(p)

(***************************************************************************)
(* C12: Illegal and forward progress                                       *)
(***************************************************************************)
\* the scanner of a fresh Tokenize call on tpl after n pulls
RECURSIVE ScannerAfter(_, _)
ScannerAfter(tpl, n) ==
    IF n = 0 THEN NewTokenizer ELSE next(tpl, ScannerAfter(tpl, n - 1)).t

\* the pull from scanner t returns Illegal, leaves the cursor where it was, and
\* the pull after it returns the same Illegal
StuckIllegal(tpl, t) ==
    LET r == next(tpl, t) IN
    /\ r.tok.kind = "Illegal"
    /\ r.t.i = t.i
    /\ next(tpl, r.t).tok = r.tok

\* C12 as stated: there is an input on which a pull returns Illegal and leaves
\* the cursor at the offset it had when the pull began, so that the next pull
\* returns the same Illegal (same reason, same location) again; the inputs are
\* the template of this run and every other template of the model
C12_SomeIllegalRepeats ==
    \E tpl \in {template} \cup Templates : \E n \in 0..(MaxPulls - 1) :
        StuckIllegal(tpl, ScannerAfter(tpl, n))

\* C12 (amended): every pull that returns Illegal moves the cursor forward by at
\* least one code point and the Illegal is located at the offset the pull
\* reached, so no two pulls of one scanner return an Illegal with the same
\* location and the pull after an Illegal begins further on in the input
C12_IllegalAdvances ==
    \A k \in calls : \A j \in DOMAIN last[k] :
        LET p == last[k][j] IN
        p.tok.kind = "Illegal" =>
            /\ p.to.i > p.from.i
            /\ p.tok.loc.cursor = p.to.i
            /\ \A h \in 1..(j - 1) :
                  last[k][h].tok.kind = "Illegal" => last[k][h].tok.loc # p.tok.loc
            /\ j < Len(last[k]) => last[k][j + 1].from.i > p.from.i

\* the consumer kept pulling after an Illegal that came from "</" without a
\* name, and the pull after it began past the "</"
C12_Witness ==
    \E j \in DOMAIN last[1] :
        /\ j < Len(last[1])
        /\ IsIllegal(last[1][j].tok, "expected tag name")
        /\ At(last[1][j].from.i + 1) = "/"
        /\ last[1][j + 1].from.i = last[1][j].from.i + 2
        /\ last[1][j + 1].tok.kind # "Eof"

(***************************************************************************)
(* C13: an attribute name written more than once in one start tag.  The    *)
(* attributes of a tag are read off the template: a name, optional         *)
(* whitespace, then either nothing or "=", optional whitespace and a value *)
(* between two quotes of one kind; the list ends at ">" or "/>".           *)
(***************************************************************************)
\* the offset of the quote that closes the value opened by the quote at offset q,
\* or the offset of the U+0000 or of the end of the input that comes before one
RECURSIVE CloseFrom(_, _)
CloseFrom(r, q) ==
    IF At(r) \in {"", NUL} THEN r
    ELSE IF At(r) = At(q) /\ (r = q + 1 \/ At(r - 1) # BS) THEN r
    ELSE CloseFrom(r + 1, q)

ClosingQuote(q) == CloseFrom(q + 1, q)

\* the attributes written from offset pos on, in the order they are written, and
\* whether the list is well formed up to and including the ">" that ends the tag
RECURSIVE AttrsWritten(_)
AttrsWritten(pos) ==
    IF At(pos) \in {">", "/"}
    THEN [ok |-> At(pos) = ">" \/ At(pos + 1) = ">", attrs |-> <<>>]
    ELSE LET ne    == After(pos, AttributeNameCodePoints)
             eqp   == After(ne, WhitespaceCodePoints)
             q     == After(eqp + 1, WhitespaceCodePoints)
             close == ClosingQuote(q)
         IN  IF ne = pos \/ At(ne) \notin WhitespaceCodePoints \cup {">", "="}
             THEN [ok |-> FALSE, attrs |-> <<>>]
             ELSE IF At(eqp) # "="
             THEN LET r == AttrsWritten(eqp) IN
                  [ok    |-> r.ok,
                   attrs |-> <<[name |-> Slice(template, pos, ne), nameAt |-> pos,
                                value |-> <<>>, valueAt |-> -1]>> \o r.attrs]
             ELSE IF At(q) \notin {DQ, SQ} \/ At(close) # At(q)
             THEN [ok |-> FALSE, attrs |-> <<>>]
             ELSE LET r == AttrsWritten(After(close + 1, WhitespaceCodePoints)) IN
                  [ok    |-> r.ok,
                   attrs |-> <<[name |-> Slice(template, pos, ne), nameAt |-> pos,
                                value |-> Slice(template, q + 1, close),
                                valueAt |-> q]>> \o r.attrs]

\* the start tag written at offset lt: its attributes, if "<" and a tag name
\* ended by whitespace or ">" are there
TagWritten(lt) ==
    LET n == After(lt + 1, TagNameCodePoints)
        w == AttrsWritten(After(n, WhitespaceCodePoints))
    IN  IF At(lt) = "<" /\ isLetter(At(lt + 1)) /\ At(n) \in WhitespaceCodePoints \cup {">"}
        THEN w
        ELSE [ok |-> FALSE, attrs |-> <<>>]

\* some name is written twice in the list
HasDuplicate(attrs) ==
    \E h, j \in DOMAIN attrs : h < j /\ attrs[h].name = attrs[j].name

\* occurrence j is the last one of its name in the list
IsLastOccurrence(attrs, j) ==
    \A h \in DOMAIN attrs : attrs[h].name = attrs[j].name => h <= j

\* C13: a pull that begins at a well-formed start tag in which some attribute
\* name is written more than once returns a StartTag, not an Illegal; its
\* mapping has exactly one entry per written name, and the entry carries the
\* name location and the value of the last occurrence of the name, with the
\* location of that occurrence's opening quote if it has a value and the value
\* location of no earlier occurrence if it has none
C13_LastOccurrenceWins ==
    \A k \in calls : \A p \in Pulls(k) :
        LET w == TagWritten(p.from.i) IN
        w.ok /\ HasDuplicate(w.attrs) =>
            /\ p.tok.kind = "StartTag"
            /\ DOMAIN p.tok.attributes = {w.attrs[j].name : j \in DOMAIN w.attrs}
            /\ \A j \in DOMAIN w.attrs :
                  IsLastOccurrence(w.attrs, j) =>
                      LET a == p.tok.attributes[w.attrs[j].name] IN
                      /\ a.name = w.attrs[j].name
                      /\ a.value = w.attrs[j].value
                      /\ a.nameLocation.cursor = w.attrs[j].nameAt
                      /\ LineColumnAt(a.nameLocation.line, a.nameLocation.column,
                                      a.nameLocation.cursor)
                      /\ IF w.attrs[j].valueAt >= 0
                         THEN /\ a.valueLocation.cursor = w.attrs[j].valueAt
                              /\ LineColumnAt(a.valueLocation.line, a.valueLocation.column,
                                              a.valueLocation.cursor)
                         ELSE \A h \in 1..(j - 1) :
                                  a.valueLocation.cursor # w.attrs[h].valueAt

\* a tag was scanned in which a name is written twice, first with a non-empty
\* value and then with another value or none
C13_Witness ==
    \E p \in Pulls(1) :
        LET w == TagWritten(p.from.i) IN
        /\ w.ok
        /\ p.tok.kind = "StartTag"
        /\ \E h, j \in DOMAIN w.attrs :
              /\ h < j
              /\ w.attrs[h].name = w.attrs[j].name
              /\ w.attrs[h].value # <<>>
              /\ w.attrs[h].value # w.attrs[j].value

(***************************************************************************)
(* C14: progress of every pull                                             *)
(***************************************************************************)
\* C14: every pull that returns a token other than Eof moves the cursor forward
\* by at least one code point, and no Text token has an empty value
C14_EveryPullAdvances ==
    \A k \in calls : \A p \in Pulls(k) :
        p.tok.kind # "Eof" =>
            /\ p.to.i > p.from.i
            /\ p.tok.kind = "Text" => p.tok.value # <<>>

(***************************************************************************)
(* C15: a value opened with one quote character and the other one after it *)
(***************************************************************************)
\* the offset of the first quote of either kind from r on, or of the U+0000 or
\* the end of the input that comes before one
RECURSIVE FirstQuote(_)
FirstQuote(r) == IF At(r) \in {"", NUL, DQ, SQ} THEN r ELSE FirstQuote(r + 1)

\* the first value of the tag at offset lt is opened by one quote character and
\* the first quote after it is the other one; the result is the offset of that
\* other quote, or -1
OtherQuote(lt) ==
    LET q == OpeningQuote(lt)
        r == FirstQuote(q + 1)
    IN  IF q >= 0 /\ At(r) \in {DQ, SQ} /\ At(r) # At(q) THEN r ELSE -1

\* token tok is a StartTag with an attribute whose value was opened at offset q
\* and is the text between offsets q and r
StoresValue(tok, q, r) ==
    /\ tok.kind = "StartTag"
    /\ \E n \in DOMAIN tok.attributes :
          /\ tok.attributes[n].valueLocation.cursor = q
          /\ tok.attributes[n].value = Slice(template, q + 1, r)

\* C15 as stated: a value opened with one quote character and followed by the
\* other one is accepted; the scan ends at that other quote and, the rest of the
\* tag being well formed, the StartTag stores the text between the two
C15_OtherQuoteCloses ==
    \A k \in calls : \A p \in Pulls(k) :
        LET q == OpeningQuote(p.from.i)
            r == OtherQuote(p.from.i)
        IN  r >= 0 /\ AttrsWritten(After(r + 1, WhitespaceCodePoints)).ok =>
                StoresValue(p.tok, q, r)

\* C15 (amended): the other quote character does not close the value.  The scan
\* goes on to the next occurrence of the opening quote character that no
\* backslash precedes: if there is none the pull returns Illegal "expected
\* closing quote" at the end of the scan, and if the pull returns a StartTag the
\* value stored is the text up to that occurrence, the other quote included
\* (unless the name is written again later in the tag, see C13)
C15_SameQuoteCloses ==
    \A k \in calls : \A p \in Pulls(k) :
        LET q == OpeningQuote(p.from.i)
            r == OtherQuote(p.from.i)
            c == ClosingQuote(q)
        IN  r >= 0 =>
                /\ ~StoresValue(p.tok, q, r)
                /\ At(c) # At(q) =>
                      /\ IsIllegal(p.tok, "expected closing quote")
                      /\ p.to.i = c
                /\ At(c) = At(q) =>
                      /\ c > r
                      /\ p.to.i > c
                      /\ p.tok.kind = "StartTag" =>
                            LET w == TagWritten(p.from.i) IN
                            \A j \in DOMAIN w.attrs :
                                w.attrs[j].valueAt = q /\ IsLastOccurrence(w.attrs, j) =>
                                    StoresValue(p.tok, q, c)

\* a tag was scanned whose value is opened by one quote character, holds the
\* other one and is closed by the first, and the StartTag stores all of it
C15_Witness ==
    \E p \in Pulls(1) :
        LET q == OpeningQuote(p.from.i)
            r == OtherQuote(p.from.i)
            c == ClosingQuote(q)
        IN  /\ r >= 0
            /\ At(c) = At(q)
            /\ StoresValue(p.tok, q, c)

(***************************************************************************)
(* C16: tag names                                                          *)
(***************************************************************************)
\* the offset at which the name of the tag that begins at offset lt starts, for
\* "<" and a letter or "</" and a letter; -1 if no such tag begins there
NameStart(lt) ==
    IF At(lt) = "<" /\ isLetter(At(lt + 1)) THEN lt + 1
    ELSE IF At(lt) = "<" /\ At(lt + 1) = "/" /\ isLetter(At(lt + 2)) THEN lt + 2
    ELSE -1

\* C16: the name of every StartTag and EndTag is non-empty, starts with a letter
\* and holds only letters, "-" and ":"; it is the run of such code points after
\* "<" or "</" and the code point after it is whitespace, ">" or the end of the
\* input; a run followed by any other code point gives Illegal "unexpected
\* character in tag name" located at that code point
C16_TagNames ==
    \A k \in calls : \A p \in Pulls(k) :
        LET s == NameStart(p.from.i)
            e == After(s, TagNameCodePoints)
        IN  /\ p.tok.kind \in {"StartTag", "EndTag"} =>
                  /\ p.tok.name # <<>>
                  /\ isLetter(p.tok.name[1])
                  /\ \A j \in DOMAIN p.tok.name : p.tok.name[j] \in TagNameCodePoints
                  /\ s >= 0
                  /\ p.tok.name = Slice(template, s, e)
                  /\ At(e) \in WhitespaceCodePoints \cup {">", ""}
            /\ s >= 0 /\ At(e) \notin WhitespaceCodePoints \cup {">", ""} =>
                  /\ IsIllegal(p.tok, "unexpected character in tag name")
                  /\ p.tok.loc.cursor = e
                  /\ LineColumnAt(p.tok.loc.line, p.tok.loc.column, e)

(***************************************************************************)
(* C17: the failures of an end tag.  For a pull that begins at "</", s is   *)
(* the offset after it, e the offset after the run of letters, "-" and ":" *)
(* from s on, and g the offset after the whitespace from e on.             *)
(***************************************************************************)
EndTagAt(lt) == At(lt) = "<" /\ At(lt + 1) = "/"

\* the code points at which the loop of tagName() ends a name without an error
NameEnds == WhitespaceCodePoints \cup {">", "", NUL}

\* the name after "</" at offset lt is a run ended as a name ends, and what
\* comes after the whitespace that follows it is not ">"
NoClosingBracket(lt) ==
    LET e == After(lt + 2, TagNameCodePoints)
        g == After(e, WhitespaceCodePoints)
    IN  /\ EndTagAt(lt)
        /\ isLetter(At(lt + 2))
        /\ At(e) \in NameEnds
        /\ At(g) # ">"

\* C17 as stated: "</" followed by a code point that is not a letter gives
\* Illegal "tag name must start with a letter", and "</name", optional
\* whitespace and anything but ">" gives Illegal "expected closing angle
\* bracket"
C17_EndTagReasonsOfTagName ==
    \A k \in calls : \A p \in Pulls(k) :
        /\ EndTagAt(p.from.i) /\ At(p.from.i + 2) # "" /\ ~isLetter(At(p.from.i + 2)) =>
              IsIllegal(p.tok, "tag name must start with a letter")
        /\ NoClosingBracket(p.from.i) =>
              IsIllegal(p.tok, "expected closing angle bracket")

\* C17 (amended): a pull that begins at "</" returns, if no letter follows (any
\* other code point, or the end of the input),
\* Illegal "expected tag name" located just after the "</"; if the name is
\* followed by a code point that neither belongs to a name nor ends one, Illegal
\* "unexpected character in tag name" located there; if what comes after the
\* name and the whitespace is not ">", Illegal "expected closing angle bracket"
\* located there; and otherwise an EndTag with that name, the cursor ending
\* after the ">"
C17_EndTagReasons ==
    \A k \in calls : \A p \in Pulls(k) :
        LET s == p.from.i + 2
            e == After(s, TagNameCodePoints)
            g == After(e, WhitespaceCodePoints)
        IN  EndTagAt(p.from.i) =>
                IF ~isLetter(At(s))
                THEN IsIllegal(p.tok, "expected tag name")
                        /\ p.tok.loc.cursor = s /\ p.to.i = s
                ELSE IF At(e) \notin NameEnds
                THEN IsIllegal(p.tok, "unexpected character in tag name")
                        /\ p.tok.loc.cursor = e /\ p.to.i = e
                ELSE IF At(g) # ">"
                THEN IsIllegal(p.tok, "expected closing angle bracket")
                        /\ p.tok.loc.cursor = g /\ p.to.i = g
                ELSE /\ p.tok.kind = "EndTag"
                     /\ p.tok.name = Slice(template, s, e)
                     /\ p.to.i = g + 1

\* a pull began at "</" and whitespace, and returned Illegal "expected tag name"
C17_Witness ==
    \E p \in Pulls(1) :
        /\ EndTagAt(p.from.i)
        /\ At(p.from.i + 2) \in WhitespaceCodePoints
        /\ IsIllegal(p.tok, "expected tag name")

(***************************************************************************)
(* C18: the Location of a token                                            *)
(***************************************************************************)
\* C18: every pull begins where the pull before it stopped (the first one at
\* the start of the input); a Doctype, StartTag, EndTag or Text carries the
\* Location of the scanner when its pull began, an Illegal the Location of the
\* scanner right after its pull, and the value of a Text is the input from its
\* Location.cursor up to the cursor after the pull
C18_TokenLocations ==
    \A k \in calls : \A j \in DOMAIN last[k] :
        LET p == last[k][j] IN
        /\ p.from = IF j = 1 THEN NewTokenizer ELSE last[k][j - 1].to
        /\ p.tok.kind \in {"Doctype", "StartTag", "EndTag", "Text"} =>
              p.tok.loc = location(p.from)
        /\ p.tok.kind = "Illegal" => p.tok.loc = location(p.to)
        /\ p.tok.kind = "Text" =>
              p.tok.value = Slice(template, p.tok.loc.cursor, p.to.i)
        /\ LineColumnAt(p.tok.loc.line, p.tok.loc.column, p.tok.loc.cursor)

\* after at least one code point of the input a pull returned an Illegal located
\* past the line and the offset it began at, and the pull after it a Text that
\* is not empty and begins there
C18_Witness ==
    \E j \in DOMAIN last[1] :
        /\ j < Len(last[1])
        /\ last[1][j].tok.kind = "Illegal"
        /\ last[1][j].tok.loc.line > last[1][j].from.line
        /\ last[1][j + 1].tok.kind = "Text"
        /\ last[1][j + 1].tok.value # <<>>
        /\ last[1][j + 1].tok.loc = last[1][j].tok.loc

(***************************************************************************)
(* C19: the cursor never goes back, and a second iteration of the sequence *)
(* goes on where the first one stopped.                                    *)
(***************************************************************************)
\* one step: the cursor of no call decreases; a pull begins at the scanner the
\* call had before the step, which is where its last pull ended, also when the
\* pull is the first of another iteration of the sequence
C19_Step ==
    \A k \in calls :
        /\ tk'[k].i >= tk[k].i
        /\ Len(last'[k]) > Len(last[k]) =>
              LET p == last'[k][Len(last'[k])] IN
              /\ p.from = tk[k]
              /\ p.to = tk'[k]
              /\ Len(last[k]) > 0 => p.from.i = last[k][Len(last[k])].to.i
              /\ status[k] \in {"stopped", "done"} /\ tk[k].i > 0 => p.from.i > 0

\* C19: over any sequence of pulls on one scanner the cursor offset never
\* decreases, and the first pull of a second iteration of the same sequence
\* begins at the offset where the earlier iteration stopped, not at offset 0
C19_NeverRewinds == [][C19_Step]_vars

\* an iteration that yielded tokens ended at Eof past offset 0, and the sequence
\* was iterated again: the pull after the Eof began where the Eof was returned
C19_Witness ==
    \E j \in DOMAIN last[1] :
        /\ j < Len(last[1])
        /\ out[1] # <<>>
        /\ last[1][j].tok.kind = "Eof"
        /\ last[1][j].to.i > 0
        /\ last[1][j + 1].from.i = last[1][j].to.i

(***************************************************************************)
(* C20: the scan of a quoted value                                         *)
(***************************************************************************)
\* the offset of the first occurrence, from r on, of the quote character at
\* offset q that no backslash immediately precedes, or the length of the input
RECURSIVE TerminatorFrom(_, _)
TerminatorFrom(r, q) ==
    IF At(r) = "" THEN r
    ELSE IF At(r) = At(q) /\ At(r - 1) # BS THEN r
    ELSE TerminatorFrom(r + 1, q)

TerminatingQuote(q) == TerminatorFrom(q + 1, q)

\* C20: when the first value of a tag is opened by a quote and a later
\* occurrence of that quote character has no backslash immediately before it,
\* the scan of the value ends at the first such occurrence and leaves the cursor
\* just past it: the pull ends past that quote, an Illegal it returns is located
\* past that quote, and a StartTag it returns stores exactly the code points
\* between the two quotes, backslashes and the quotes after them included
\* (unless the name is written again later in the tag, see C13)
C20_ValueUpToUnescapedQuote ==
    \A k \in calls : \A p \in Pulls(k) :
        LET q == OpeningQuote(p.from.i)
            c == TerminatingQuote(q)
        IN  q >= 0 /\ At(c) = At(q) =>
                /\ p.to.i > c
                /\ p.tok.kind = "Illegal" => p.tok.loc.cursor > c
                /\ p.tok.kind = "StartTag" =>
                      LET w == TagWritten(p.from.i) IN
                      \A j \in DOMAIN w.attrs :
                          w.attrs[j].valueAt = q /\ IsLastOccurrence(w.attrs, j) =>
                              StoresValue(p.tok, q, c)

====
